---- MODULE Spec2Model ----
(***************************************************************************)
(* XP / levelling and idempotent-reward engine of the QuickFix backend.    *)
(*                                                                         *)
(* server/services/xp.js   level functions, awardXp, awardXpDirect,        *)
(*                         hasCommentXpForPost, awardCommentXp,            *)
(*                         awardDailyLoginXp                               *)
(* server/routes/videos.js POST /:id/watch and its in-memory cooldown map, *)
(*                         POST / (upload)                                 *)
(* server/routes/community.js  post and comment creation                   *)
(* server/routes/auth.js   POST /login                                     *)
(* server/db.js            users, xp_post_comments, xp_daily_logins        *)
(*                                                                         *)
(* Every request is an async handler.  A handler is a chain of JavaScript  *)
(* segments separated by awaited pool.query calls; the statements of other *)
(* requests may execute in the database between any two statements of one  *)
(* request.  One action below is one database statement together with the  *)
(* local computation that follows it, or one JavaScript segment that       *)
(* touches process memory shared by requests (the cooldown map).  The      *)
(* statements a route runs before its grant touch none of the tables kept  *)
(* here and are one step with the arrival of the request.                  *)
(***************************************************************************)
EXTENDS Integers, Sequences, FiniteSets, TLC

\* ------------------------------------------------------------------ bounds
NumProcs == 2
MaxOps == 3
MaxClock == 600001
LevelProbeMax == 1100

\* ------------------------------------------------------- level functions

\* maxXp: Infinity of band 5 is encoded as -1 and compared by LeMax
Infinity == -1

XP_REWARDS ==
  [ ai_chat_message   |-> 5,
    liveassist_scan   |-> 10,
    video_watch       |-> 3,
    community_post    |-> 20,
    community_comment |-> 10,
    post_solved       |-> 50,
    video_upload      |-> 30,
    daily_login       |-> 10 ]

LEVEL_THRESHOLDS ==
  << [level |-> 1, minXp |-> 0,    maxXp |-> 99],
     [level |-> 2, minXp |-> 100,  maxXp |-> 249],
     [level |-> 3, minXp |-> 250,  maxXp |-> 499],
     [level |-> 4, minXp |-> 500,  maxXp |-> 999],
     [level |-> 5, minXp |-> 1000, maxXp |-> Infinity] >>

\* xp <= threshold.maxXp, with maxXp possibly Infinity
LeMax(xp, maxXp) == maxXp = Infinity \/ xp <= maxXp

\* mutant: upper bound of a band taken as exclusive
InBand_exclusiveMax(xp, threshold) ==
  xp >= threshold.minXp /\ (threshold.maxXp = Infinity \/ xp < threshold.maxXp)

\* the loop condition  xp >= threshold.minXp && xp <= threshold.maxXp
InBand(xp, threshold) ==
  xp >= threshold.minXp /\ LeMax(xp, threshold.maxXp)

RECURSIVE ScanThresholds(_, _)
\* for (const threshold of LEVEL_THRESHOLDS) from index i on; 5 after the loop
ScanThresholds(xp, i) ==
  IF i > Len(LEVEL_THRESHOLDS) THEN 5
  ELSE IF InBand(xp, LEVEL_THRESHOLDS[i]) THEN LEVEL_THRESHOLDS[i].level
  ELSE ScanThresholds(xp, i + 1)

calculateLevelFromXp(xp) ==
  IF xp < 0 THEN 1 ELSE ScanThresholds(xp, 1)

RECURSIVE findIndexLevel(_, _)
\* LEVEL_THRESHOLDS.findIndex(t => t.level === lvl), 1-based, 0 for "not found"
findIndexLevel(lvl, i) ==
  IF i > Len(LEVEL_THRESHOLDS) THEN 0
  ELSE IF LEVEL_THRESHOLDS[i].level = lvl THEN i
  ELSE findIndexLevel(lvl, i + 1)

\* mutant: the next-level figure is the lower bound of the level's own band
getNextLevelXp_ownBand(currentLevel) ==
  LET levelIndex == findIndexLevel(currentLevel, 1)
  IN  IF levelIndex >= 1 THEN LEVEL_THRESHOLDS[levelIndex].minXp ELSE 1000

getNextLevelXp(currentLevel) ==
  IF currentLevel >= 5 THEN LEVEL_THRESHOLDS[5].minXp
  ELSE LET nextLevelIndex == findIndexLevel(currentLevel + 1, 1)
       IN  IF nextLevelIndex >= 1 THEN LEVEL_THRESHOLDS[nextLevelIndex].minXp
           ELSE 1000

getCurrentLevelXp(currentLevel) ==
  LET levelIndex == findIndexLevel(currentLevel, 1)
  IN  IF levelIndex >= 1 THEN LEVEL_THRESHOLDS[levelIndex].minXp ELSE 0


\* ------------------------------------------------------------ input sets

\* rows of table users (no route of the repository deletes a user)
Users == {"u1", "u2"}
\* an id that matches no row of users
NoUser == "u0"
UserIds == Users \cup {NoUser}
\* community posts that comment rewards are scoped by
Posts == {"p1", "p2"}
\* rows of table videos, and an id that matches none
Videos == {"v1"}
NoVideo == "v0"
\* rows of table community_comments, and an id that matches none
Comments == {"c1", "c2"}
NoComment == "c0"
\* an id that matches no row of community_posts
NoPost == "p0"
\* columns of community_posts that no modelled route writes
PostRow == [p1 |-> [author_id |-> "u1"], p2 |-> [author_id |-> "u2"]]
\* columns of community_comments that no modelled route writes: c1 is u2's
\* answer to u1's post, c2 is u1's own comment on that post
CommentRow ==
  [c1 |-> [post_id |-> "p1", user_id |-> "u2"],
   c2 |-> [post_id |-> "p1", user_id |-> "u1"]]
\* the callers whose requests are followed; the other user is a bystander
Callers == {"u1", NoUser}
\* a JavaScript number: the integer n when exact, n + 0.5 otherwise
Num(n) == [n |-> n, exact |-> TRUE]
Half(n) == [n |-> n, exact |-> FALSE]
\* names every object inherits from Object.prototype: XP_REWARDS[name] is a
\* function for them, not undefined
ObjectPrototypeKeys == {"constructor"}
\* actionType arguments of awardXp: a catalog key (routes/ai.js), a name that
\* is no property at all, and an inherited name
ActionInputs == {"ai_chat_message", "bogus", "constructor"}
\* amount arguments of awardXpDirect: a catalog amount as the callers pass
\* it, zero and a number that is not an integer
AmountInputs == {Num(XP_REWARDS.daily_login), Num(0), Half(2)}
\* stored xp at the start of a run: values grants from 0 can reach
StartXp == {0, 95}
\* Date.now() moves on by one of these between two readings
ClockSteps == {0, 299999, 300000}
\* first reading of Date.now(): some positive number of milliseconds
ClockStart == 1

VARIABLES
  users,                \* table users: id -> [xp, level]
  xp_post_comments,     \* table xp_post_comments: set of <<user_id, post_id>>
  xp_daily_logins,      \* table xp_daily_logins: set of <<user_id, login_date>>
  videoWatchCooldowns,  \* Map "user:video" -> timestamp; 0 stands for no entry
  clock,                \* latest value Date.now() has returned
  proc,                 \* the in-flight requests: locals, position, result
  expected,             \* per user: initial xp + xpAwarded of every success result
  lastWatchGrant,       \* per cooldown key: `now` of the watch request last granted
  abandoned,            \* scopes whose grant stopped between marker and UPDATE
  started,              \* number of requests accepted so far
  probe,                \* an experience value and the level computed for it
  community_comments,   \* table community_comments: id -> is_solution
  community_posts,      \* table community_posts: id -> status
  video_likes,          \* table video_likes: set of <<user_id, video_id>>
  videos,               \* table videos: id -> [likes_count]
  dailyGrants           \* the <<user, date>> scopes whose daily_login was applied

vars == <<users, xp_post_comments, xp_daily_logins, videoWatchCooldowns, clock,
          proc, expected, lastWatchGrant, abandoned, started, probe,
          community_comments, community_posts, video_likes, videos,
          dailyGrants>>

Procs == 1..NumProcs

CooldownKeys == UserIds \X Videos

\* a request slot with no request in it
IdleProc ==
  [ op |-> "idle", pc |-> "idle", userId |-> "", actionType |-> "",
    amount |-> 0, exact |-> TRUE, postId |-> "", videoId |-> "", today |-> 0,
    currentXp |-> 0, currentLevel |-> 0, now |-> 0, lastWatchTime |-> 0,
    hadMarker |-> FALSE, commentId |-> "", requester |-> "",
    helperUserId |-> "", existing |-> FALSE,
    res |-> [pending |-> TRUE] ]

InFlight(p) == proc[p].pc \notin {"idle", "done", "stopped"}

\* slot p holds no request, or one that has been answered or has stopped
Free(p) == ~InFlight(p)

\* error.message of a rejected pool.query
StorageError == "storage error"

\* the tables, the cooldown map and the request slots after start-up
InitStore ==
  /\ \E e \in StartXp :
       users = [u \in Users |->
                  IF u = "u1" THEN [xp |-> e, level |-> calculateLevelFromXp(e)]
                  ELSE [xp |-> 0, level |-> 1]]
  /\ xp_post_comments = {}
  /\ xp_daily_logins = {}
  /\ videoWatchCooldowns = [k \in CooldownKeys |-> 0]
  /\ clock = ClockStart
  /\ proc = [p \in Procs |-> IdleProc]
  /\ expected = [u \in Users |-> users[u].xp]
  /\ lastWatchGrant = [k \in CooldownKeys |-> 0]
  /\ abandoned = [comments |-> {}, logins |-> {}]
  /\ started = 0
  /\ community_comments = [c \in Comments |-> [is_solution |-> FALSE]]
  /\ community_posts = [post \in Posts |-> [status |-> "open"]]
  /\ video_likes = {}
  /\ videos = [v \in Videos |-> [likes_count |-> 0]]
  /\ dailyGrants = {}

Init ==
  /\ InitStore
  /\ probe = [xp |-> 0, level |-> 0, nextLevelXp |-> -1, currentLevelXp |-> -1]

\* value || dflt
OrElse(value, dflt) == IF value = 0 THEN dflt ELSE value

\* --------------------------------------------------- returning to a caller

\* mutant: a route answers with an error when the grant did not succeed
RouteStatus_failWithGrant(status, xpResult) ==
  IF xpResult.success THEN status ELSE 500

\* the status of a route's answer once its own work is done: res.status(201)
\* or res.json, whatever the grant returned
RouteStatus(status, xpResult) == status

\* the requests that reward once per scope, directly or through their route
OnceOps == {"awardCommentXp", "awardDailyLoginXp", "createComment", "login"}

\* awardCommentXp / awardDailyLoginXp once awardXpDirect has returned
AwardedResult(result) ==
  IF result.success
  THEN [awarded |-> TRUE] @@ result
  ELSE [success |-> TRUE, awarded |-> FALSE]

\* what the caller of awardCommentXp / awardDailyLoginXp does with the result
ReturnOnce(self, xpResult) ==
  LET gained == IF xpResult.success /\ xpResult.awarded
                THEN xpResult.xpAwarded ELSE 0
      here == [self EXCEPT !.pc = "done", !.currentXp = 0, !.currentLevel = 0,
                           !.hadMarker = FALSE]
  IN  CASE self.op \in {"awardCommentXp", "awardDailyLoginXp"} ->
             [here EXCEPT !.res = xpResult]
        [] self.op = "createComment" ->
             [here EXCEPT !.res = [status |-> RouteStatus(201, xpResult),
                                   xpAwarded |-> gained]]
        [] self.op = "login" ->
             [here EXCEPT !.res = [status |-> RouteStatus(200, xpResult),
                                   xpAwarded |-> gained]]

\* what the caller of awardXp / awardXpDirect does with the result, up to its
\* next statement that touches the database or the cooldown map
Return(self, result) ==
  CASE self.op \in {"awardXp", "awardXpDirect"} ->
         [self EXCEPT !.pc = "done", !.res = result,
                      !.currentXp = 0, !.currentLevel = 0]
    [] self.op \in {"upload", "createPost"} ->
         [self EXCEPT !.pc = "done",
                      !.currentXp = 0, !.currentLevel = 0,
                      !.res = [status |-> RouteStatus(201, result),
                               xpAwarded |-> IF result.success
                                             THEN result.xpAwarded ELSE 0]]
    [] self.op \in OnceOps -> ReturnOnce(self, AwardedResult(result))
    [] self.op = "markSolution" ->
         [self EXCEPT !.pc = "done",
                      !.currentXp = 0, !.currentLevel = 0,
                      !.res = [status |-> RouteStatus(200, result),
                               success |-> TRUE,
                               helperXpAwarded |-> IF result.success
                                                   THEN result.xpAwarded
                                                   ELSE 0]]
    [] self.op = "watch" ->
         IF result.success
         THEN [self EXCEPT !.pc = "watch_respond", !.res = result,
                           !.currentXp = 0, !.currentLevel = 0]
         ELSE [self EXCEPT !.pc = "done",
                           !.currentXp = 0, !.currentLevel = 0,
                           !.res = [status |-> RouteStatus(200, result),
                                    success |-> TRUE, xpAwarded |-> 0]]

\* the success results count towards the expected total of the user
Credit(result, userId) ==
  IF result.success
  THEN [expected EXCEPT ![userId] = @ + result.xpAwarded]
  ELSE expected

\* a watch request whose awardXp succeeded counts as the last grant of its key
WatchGranted(self) ==
  IF self.op = "watch"
  THEN [lastWatchGrant EXCEPT ![<<self.userId, self.videoId>>] = self.now]
  ELSE lastWatchGrant

\* a daily login whose awardXpDirect succeeded has applied the reward of its
\* (user, date) scope
DailyGranted(self) ==
  IF self.op \in {"awardDailyLoginXp", "login"}
  THEN dailyGrants \cup {<<self.userId, self.today>>}
  ELSE dailyGrants

\* ------------------------------------------------------ the users table

\* mutant: a missing row is read as a fresh record instead of "User not found"
UserRows_upsert(userId) ==
  IF userId \in Users THEN {users[userId]} ELSE {[xp |-> 0, level |-> 1]}

\* userResult.rows of  SELECT xp, level FROM users WHERE id = $1
UserRows(userId) ==
  IF userId \in Users THEN {users[userId]} ELSE {}

\* mutant: the UPDATE stores the new xp and leaves the cached level alone
UpdateUser_staleLevel(userId, newXp, newLevel) ==
  IF userId \in Users
  THEN [users EXCEPT ![userId] = [xp |-> newXp, level |-> @.level]]
  ELSE users

\* the rows the UPDATE ... WHERE id = $3 rewrites
UpdateUser(userId, newXp, newLevel) ==
  IF userId \in Users
  THEN [users EXCEPT ![userId] = [xp |-> newXp, level |-> newLevel]]
  ELSE users

\* ------------------------------------------------------------- awardXp

\* XP_REWARDS[actionType] where it is not undefined: the amount of a catalog
\* key; for an inherited name a function, which added to the experience
\* gives a string and so no integer
Lookup(actionType) ==
  IF actionType \in DOMAIN XP_REWARDS THEN Num(XP_REWARDS[actionType])
  ELSE Half(0)

\* !xpAmount is false: XP_REWARDS[actionType] is a non-zero number or a function
Truthy(actionType) ==
  \/ actionType \in DOMAIN XP_REWARDS /\ XP_REWARDS[actionType] # 0
  \/ actionType \in ObjectPrototypeKeys

\* the xp INTEGER column takes $1 only when it is an integer
IntegerColumnAccepts(self) == self.exact

\* awardXp up to its first await: argument checks, then the SELECT is issued
awardXp_enter(self, userId, actionType) ==
  IF userId = ""
  THEN Return(self, [success |-> FALSE, error |-> "No userId provided"])
  ELSE IF ~Truthy(actionType)
  THEN Return(self, [success |-> FALSE, error |-> "Unknown action type"])
  ELSE LET xpAmount == Lookup(actionType)
       IN  [self EXCEPT !.pc = "awardXp_select", !.userId = userId,
                        !.actionType = actionType,
                        !.amount = xpAmount.n, !.exact = xpAmount.exact]

\* a route calls awardXp(userId, actionType) (routes/ai.js)
awardXp(p, userId, actionType) ==
  /\ Free(p)
  /\ started < MaxOps
  /\ started' = started + 1
  /\ proc' = [proc EXCEPT ![p] =
       awardXp_enter([IdleProc EXCEPT !.op = "awardXp", !.userId = userId,
                                      !.actionType = actionType],
                     userId, actionType)]
  /\ UNCHANGED <<community_comments, community_posts, video_likes, videos,
               dailyGrants, xp_daily_logins, abandoned, probe, lastWatchGrant, users, xp_post_comments, videoWatchCooldowns, clock, expected>>

\* SELECT xp, level FROM users WHERE id = $1, and the code up to the UPDATE
awardXp_select(p) ==
  /\ proc[p].pc = "awardXp_select"
  /\ \E ok \in BOOLEAN :
       proc' = [proc EXCEPT ![p] =
         IF ~ok
         THEN Return(proc[p], [success |-> FALSE, error |-> StorageError])
         ELSE IF UserRows(proc[p].userId) = {}
         THEN Return(proc[p], [success |-> FALSE, error |-> "User not found"])
         ELSE LET row == CHOOSE r \in UserRows(proc[p].userId) : TRUE
              IN  [proc[p] EXCEPT !.pc = "awardXp_update",
                     !.currentXp = OrElse(row.xp, 0)]]
  /\ UNCHANGED <<community_comments, community_posts, video_likes, videos,
               dailyGrants, xp_daily_logins, abandoned, probe, lastWatchGrant, users, xp_post_comments, videoWatchCooldowns, clock,
                 expected, started>>

\* UPDATE users SET xp = $1, level = $2 WHERE id = $3, and the return
awardXp_update(p) ==
  /\ proc[p].pc = "awardXp_update"
  /\ LET self == proc[p]
         newXp == self.currentXp + self.amount
         newLevel == calculateLevelFromXp(newXp)
         result == [success |-> TRUE, xp |-> newXp, level |-> newLevel,
                    xpAwarded |-> self.amount]
     IN  \E ok \in BOOLEAN :
           IF ok /\ IntegerColumnAccepts(self)
           THEN /\ users' = UpdateUser(self.userId, newXp, newLevel)
                /\ proc' = [proc EXCEPT ![p] = Return(self, result)]
                /\ expected' = Credit(result, self.userId)
                /\ lastWatchGrant' = WatchGranted(self)
           ELSE /\ proc' = [proc EXCEPT ![p] =
                     Return(self, [success |-> FALSE, error |-> StorageError])]
                /\ UNCHANGED <<users, expected, lastWatchGrant>>
  /\ UNCHANGED <<community_comments, community_posts, video_likes, videos,
               dailyGrants, xp_daily_logins, abandoned, probe, xp_post_comments, videoWatchCooldowns, clock, started>>

\* -------------------------------------------------------- awardXpDirect

\* amount <= 0 for a number (typeof amount is 'number' for every input here)
LeqZero(amount) == amount.n < 0 \/ (amount.n = 0 /\ amount.exact)

\* awardXpDirect up to its first await: argument checks, then the SELECT
awardXpDirect_enter(self, userId, amount) ==
  IF userId = ""
  THEN Return(self, [success |-> FALSE, error |-> "No userId provided"])
  ELSE IF LeqZero(amount)
  THEN Return(self, [success |-> FALSE, error |-> "Invalid XP amount"])
  ELSE [self EXCEPT !.pc = "awardXpDirect_select", !.userId = userId,
                    !.amount = amount.n, !.exact = amount.exact]

\* a route calls awardXpDirect(userId, amount, label)
\* (community post created, video uploaded, answer marked as solution)
awardXpDirect(p, userId, amount) ==
  /\ Free(p)
  /\ started < MaxOps
  /\ started' = started + 1
  /\ proc' = [proc EXCEPT ![p] =
       awardXpDirect_enter([IdleProc EXCEPT !.op = "awardXpDirect",
                                            !.userId = userId,
                                            !.amount = amount.n,
                                            !.exact = amount.exact],
                           userId, amount)]
  /\ UNCHANGED <<community_comments, community_posts, video_likes, videos,
               dailyGrants, xp_daily_logins, abandoned, probe, lastWatchGrant, users, xp_post_comments, videoWatchCooldowns, clock, expected>>

\* SELECT xp, level FROM users WHERE id = $1, and the code up to the UPDATE
awardXpDirect_select(p) ==
  /\ proc[p].pc = "awardXpDirect_select"
  /\ \E ok \in BOOLEAN :
       proc' = [proc EXCEPT ![p] =
         IF ~ok
         THEN Return(proc[p], [success |-> FALSE, error |-> StorageError])
         ELSE IF UserRows(proc[p].userId) = {}
         THEN Return(proc[p], [success |-> FALSE, error |-> "User not found"])
         ELSE LET row == CHOOSE r \in UserRows(proc[p].userId) : TRUE
              IN  [proc[p] EXCEPT !.pc = "awardXpDirect_update",
                     !.currentXp = OrElse(row.xp, 0),
                     !.currentLevel = OrElse(row.level, 1)]]
  /\ UNCHANGED <<community_comments, community_posts, video_likes, videos,
               dailyGrants, xp_daily_logins, abandoned, probe, lastWatchGrant, users, xp_post_comments, videoWatchCooldowns, clock,
                 expected, started>>

\* mutant: a level-up is reported whenever the level did not drop
LeveledUp_orEqual(newLevel, currentLevel) == newLevel >= currentLevel

\* const leveledUp = newLevel > currentLevel
LeveledUp(newLevel, currentLevel) == newLevel > currentLevel

\* UPDATE users SET xp = $1, level = $2 WHERE id = $3, and the return
awardXpDirect_update(p) ==
  /\ proc[p].pc = "awardXpDirect_update"
  /\ LET self == proc[p]
         newXp == self.currentXp + self.amount
         newLevel == calculateLevelFromXp(newXp)
         leveledUp == LeveledUp(newLevel, self.currentLevel)
         result == [success |-> TRUE, xp |-> newXp, level |-> newLevel,
                    xpAwarded |-> self.amount, leveledUp |-> leveledUp,
                    nextLevelXp |-> getNextLevelXp(newLevel),
                    currentLevelXp |-> getCurrentLevelXp(newLevel)]
     IN  \E ok \in BOOLEAN :
           IF ok /\ IntegerColumnAccepts(self)
           THEN /\ users' = UpdateUser(self.userId, newXp, newLevel)
                /\ proc' = [proc EXCEPT ![p] = Return(self, result)]
                /\ expected' = Credit(result, self.userId)
                /\ dailyGrants' = DailyGranted(self)
           ELSE /\ proc' = [proc EXCEPT ![p] =
                     Return(self, [success |-> FALSE, error |-> StorageError])]
                /\ UNCHANGED <<users, expected, dailyGrants>>
  /\ UNCHANGED <<community_comments, community_posts, video_likes, videos,
               xp_daily_logins, abandoned, probe, lastWatchGrant, xp_post_comments, videoWatchCooldowns, clock, started>>

\* ------------------------------------------------------- awardCommentXp

\* mutant: the marker tables accept a row for any user id
ReferencesUser_unchecked(userId) == TRUE

\* user_id UUID REFERENCES users(id): the row's user must exist
ReferencesUser(userId) == userId \in Users

\* awardCommentXp up to its first await: argument check, then the lookup
\* (hadMarker remembers whether the marker of the scope existed at the call)
awardCommentXp_enter(self, userId, postId) ==
  IF userId = "" \/ postId = ""
  THEN ReturnOnce(self, [success |-> FALSE, awarded |-> FALSE,
                         error |-> "Missing userId or postId"])
  ELSE [self EXCEPT !.pc = "hasCommentXpForPost",
                    !.userId = userId, !.postId = postId,
                    !.hadMarker = (<<userId, postId>> \in xp_post_comments)]

\* awardCommentXp(userId, postId) is called
awardCommentXp(p, userId, postId) ==
  /\ Free(p)
  /\ started < MaxOps
  /\ started' = started + 1
  /\ proc' = [proc EXCEPT ![p] =
       awardCommentXp_enter([IdleProc EXCEPT !.op = "awardCommentXp",
                                             !.userId = userId,
                                             !.postId = postId],
                            userId, postId)]
  /\ UNCHANGED <<community_comments, community_posts, video_likes, videos,
               dailyGrants, xp_daily_logins, abandoned, probe, lastWatchGrant, users, xp_post_comments, videoWatchCooldowns, clock, expected>>

\* mutant: the marker lookup forgets the post
CommentMarkerRows_anyPost(userId, postId) ==
  {m \in xp_post_comments : m[1] = userId}

\* rows of SELECT id FROM xp_post_comments WHERE user_id = $1 AND post_id = $2
CommentMarkerRows(userId, postId) ==
  {m \in xp_post_comments : m[1] = userId /\ m[2] = postId}

\* hasCommentXpForPost: the marker lookup (false when the query throws),
\* and the early return of awardCommentXp
hasCommentXpForPost(p) ==
  /\ proc[p].pc = "hasCommentXpForPost"
  /\ \E ok \in BOOLEAN :
       LET self == proc[p]
           hasXp == IF ok
                    THEN CommentMarkerRows(self.userId, self.postId) # {}
                    ELSE FALSE
       IN  proc' = [proc EXCEPT ![p] =
             IF hasXp
             THEN ReturnOnce(self, [success |-> TRUE, awarded |-> FALSE])
             ELSE [self EXCEPT !.pc = "awardCommentXp_insert"]]
  /\ UNCHANGED <<community_comments, community_posts, video_likes, videos,
               dailyGrants, xp_daily_logins, abandoned, probe, lastWatchGrant, users, xp_post_comments, videoWatchCooldowns, clock,
                 expected, started>>

\* INSERT INTO xp_post_comments ... ON CONFLICT DO NOTHING (user_id references
\* users: a row for a missing user is rejected), then awardXpDirect is entered
awardCommentXp_insert(p) ==
  /\ proc[p].pc = "awardCommentXp_insert"
  /\ LET self == proc[p]
     IN  \E ok \in BOOLEAN :
           IF ok /\ ReferencesUser(self.userId)
           THEN /\ xp_post_comments' =
                     xp_post_comments \cup {<<self.userId, self.postId>>}
                /\ proc' = [proc EXCEPT ![p] =
                     awardXpDirect_enter(self, self.userId,
                                         Num(XP_REWARDS.community_comment))]
           ELSE /\ proc' = [proc EXCEPT ![p] =
                     ReturnOnce(self, [success |-> FALSE, awarded |-> FALSE,
                                       error |-> StorageError])]
                /\ UNCHANGED xp_post_comments
  /\ UNCHANGED <<community_comments, community_posts, video_likes, videos,
               dailyGrants, xp_daily_logins, abandoned, probe, lastWatchGrant, users, videoWatchCooldowns, clock, expected, started>>

\* --------------------------------------------------- awardDailyLoginXp

MsPerDay == 24 * 60 * 60 * 1000

\* new Date().toISOString().split('T')[0]: the UTC date, as a day number
DayOf(now) == now \div MsPerDay

\* how far the clock has moved when a login reads the date
DaySteps == {0, MsPerDay}

\* logins are followed over the day of start-up and the day after it
MaxLoginClock == MaxClock + MsPerDay

\* awardDailyLoginXp up to its first await: argument check, today's date,
\* then the lookup is issued
awardDailyLoginXp_enter(self, userId, now) ==
  IF userId = ""
  THEN ReturnOnce(self, [success |-> FALSE, awarded |-> FALSE,
                         error |-> "No userId provided"])
  ELSE [self EXCEPT !.pc = "awardDailyLoginXp_select",
                    !.userId = userId, !.today = DayOf(now)]

\* awardDailyLoginXp(userId) is called
awardDailyLoginXp(p, userId) ==
  /\ Free(p)
  /\ started < MaxOps
  /\ started' = started + 1
  /\ \E d \in DaySteps :
       LET now == clock + d
       IN  /\ now <= MaxLoginClock
           /\ clock' = now
           /\ proc' = [proc EXCEPT ![p] =
                awardDailyLoginXp_enter(
                  [IdleProc EXCEPT !.op = "awardDailyLoginXp",
                                   !.userId = userId],
                  userId, now)]
  /\ UNCHANGED <<community_comments, community_posts, video_likes, videos,
               dailyGrants, xp_daily_logins, abandoned, probe, lastWatchGrant, users,
                 xp_post_comments, videoWatchCooldowns, expected>>

\* mutant: the marker of any earlier date suppresses the reward
DailyMarkerRows_anyDate(userId, today) ==
  {m \in xp_daily_logins : m[1] = userId}

\* rows of SELECT id FROM xp_daily_logins WHERE user_id = $1 AND login_date = $2
DailyMarkerRows(userId, today) ==
  {m \in xp_daily_logins : m[1] = userId /\ m[2] = today}

\* the marker lookup of awardDailyLoginXp and its early return; a rejected
\* query goes to the catch block
awardDailyLoginXp_select(p) ==
  /\ proc[p].pc = "awardDailyLoginXp_select"
  /\ \E ok \in BOOLEAN :
       LET self == proc[p]
       IN  proc' = [proc EXCEPT ![p] =
             IF ~ok
             THEN ReturnOnce(self, [success |-> FALSE, awarded |-> FALSE,
                                    error |-> StorageError])
             ELSE IF DailyMarkerRows(self.userId, self.today) # {}
             THEN ReturnOnce(self, [success |-> TRUE, awarded |-> FALSE])
             ELSE [self EXCEPT !.pc = "awardDailyLoginXp_insert"]]
  /\ UNCHANGED <<community_comments, community_posts, video_likes, videos,
               dailyGrants, xp_daily_logins, abandoned, probe, lastWatchGrant, users,
                 xp_post_comments, videoWatchCooldowns, clock, expected, started>>

\* INSERT INTO xp_daily_logins ... ON CONFLICT DO NOTHING (user_id references
\* users), then awardXpDirect(userId, XP_REWARDS.daily_login) is entered
awardDailyLoginXp_insert(p) ==
  /\ proc[p].pc = "awardDailyLoginXp_insert"
  /\ LET self == proc[p]
     IN  \E ok \in BOOLEAN :
           IF ok /\ ReferencesUser(self.userId)
           THEN /\ xp_daily_logins' =
                     xp_daily_logins \cup {<<self.userId, self.today>>}
                /\ proc' = [proc EXCEPT ![p] =
                     awardXpDirect_enter(self, self.userId,
                                         Num(XP_REWARDS.daily_login))]
           ELSE /\ proc' = [proc EXCEPT ![p] =
                     ReturnOnce(self, [success |-> FALSE, awarded |-> FALSE,
                                       error |-> StorageError])]
                /\ UNCHANGED xp_daily_logins
  /\ UNCHANGED <<community_comments, community_posts, video_likes, videos,
               dailyGrants, abandoned, probe, lastWatchGrant, users, xp_post_comments,
                 videoWatchCooldowns, clock, expected, started>>

\* the server stops while a once-per-scope grant is between its marker
\* INSERT and the UPDATE of awardXpDirect: the request is never finished
Abandon(p) ==
  /\ proc[p].op \in OnceOps
  /\ proc[p].pc \in {"awardXpDirect_select", "awardXpDirect_update"}
  /\ proc' = [proc EXCEPT ![p].pc = "stopped", ![p].hadMarker = FALSE]
  /\ abandoned' =
       IF proc[p].op \in {"awardCommentXp", "createComment"}
       THEN [abandoned EXCEPT !.comments = @ \cup {<<proc[p].userId, proc[p].postId>>}]
       ELSE [abandoned EXCEPT !.logins = @ \cup {<<proc[p].userId, proc[p].today>>}]
  /\ UNCHANGED <<community_comments, community_posts, video_likes, videos,
               dailyGrants, xp_daily_logins, probe, lastWatchGrant, users, xp_post_comments,
                 videoWatchCooldowns, clock, expected, started>>

\* ------------------------------------------------ the routes that reward

\* POST /api/videos up to its grant: INSERT INTO videos (author_id references
\* users) and the author lookup; a rejected query is answered with 500
upload(p, userId) ==
  /\ Free(p)
  /\ started < MaxOps
  /\ started' = started + 1
  /\ \E ok \in BOOLEAN :
       LET self == [IdleProc EXCEPT !.op = "upload", !.userId = userId]
       IN  proc' = [proc EXCEPT ![p] =
             IF ok /\ ReferencesUser(userId)
             THEN awardXpDirect_enter(self, userId, Num(XP_REWARDS.video_upload))
             ELSE [self EXCEPT !.pc = "done",
                     !.res = [status |-> 500, xpAwarded |-> 0]]]
  /\ UNCHANGED <<community_comments, community_posts, video_likes, videos,
               dailyGrants, xp_daily_logins, abandoned, probe, lastWatchGrant, users,
                 xp_post_comments, videoWatchCooldowns, clock, expected>>

\* POST /api/community/posts up to its grant: INSERT INTO community_posts
\* (author_id references users) and the author lookup
createPost(p, userId) ==
  /\ Free(p)
  /\ started < MaxOps
  /\ started' = started + 1
  /\ \E ok \in BOOLEAN :
       LET self == [IdleProc EXCEPT !.op = "createPost", !.userId = userId]
       IN  proc' = [proc EXCEPT ![p] =
             IF ok /\ ReferencesUser(userId)
             THEN awardXpDirect_enter(self, userId,
                                      Num(XP_REWARDS.community_post))
             ELSE [self EXCEPT !.pc = "done",
                     !.res = [status |-> 500, xpAwarded |-> 0]]]
  /\ UNCHANGED <<community_comments, community_posts, video_likes, videos,
               dailyGrants, xp_daily_logins, abandoned, probe, lastWatchGrant, users,
                 xp_post_comments, videoWatchCooldowns, clock, expected>>

\* POST /api/community/posts/:id/comments up to its grant: INSERT INTO
\* community_comments (user_id references users), the comments_count UPDATE
\* and the author lookup
createComment(p, userId, postId) ==
  /\ Free(p)
  /\ started < MaxOps
  /\ started' = started + 1
  /\ \E ok \in BOOLEAN :
       LET self == [IdleProc EXCEPT !.op = "createComment",
                                    !.userId = userId, !.postId = postId]
       IN  proc' = [proc EXCEPT ![p] =
             IF ok /\ ReferencesUser(userId)
             THEN awardCommentXp_enter(self, userId, postId)
             ELSE [self EXCEPT !.pc = "done",
                     !.res = [status |-> 500, xpAwarded |-> 0]]]
  /\ UNCHANGED <<community_comments, community_posts, video_likes, videos,
               dailyGrants, xp_daily_logins, abandoned, probe, lastWatchGrant, users,
                 xp_post_comments, videoWatchCooldowns, clock, expected>>

\* POST /api/auth/login up to its grant: the user lookup by email (userId is
\* the user the email belongs to, NoUser for none), the password check
login(p, userId) ==
  /\ Free(p)
  /\ started < MaxOps
  /\ started' = started + 1
  /\ \E ok \in BOOLEAN, validPassword \in BOOLEAN, d \in DaySteps :
       LET self == [IdleProc EXCEPT !.op = "login", !.userId = userId]
           now == clock + d
       IN  IF ~ok
           THEN /\ proc' = [proc EXCEPT ![p] =
                     [self EXCEPT !.pc = "done",
                        !.res = [status |-> 500, xpAwarded |-> 0]]]
                /\ UNCHANGED clock
           ELSE IF UserRows(userId) = {} \/ ~validPassword
           THEN /\ proc' = [proc EXCEPT ![p] =
                     [self EXCEPT !.pc = "done",
                        !.res = [status |-> 401, xpAwarded |-> 0]]]
                /\ UNCHANGED clock
           ELSE /\ now <= MaxLoginClock
                /\ clock' = now
                /\ proc' = [proc EXCEPT ![p] =
                     awardDailyLoginXp_enter(self, userId, now)]
  /\ UNCHANGED <<community_comments, community_posts, video_likes, videos,
               dailyGrants, xp_daily_logins, abandoned, probe, lastWatchGrant, users,
                 xp_post_comments, videoWatchCooldowns, expected>>

\* ------------------------------ PUT /:postId/comments/:commentId/solution

\* the 500 answer of a route's catch block
ServerError(self) ==
  [self EXCEPT !.pc = "done",
               !.res = [status |-> 500, error |-> "Server error"]]

\* the request arrives; the post lookup is issued
markSolution(p, userId, postId, commentId) ==
  /\ Free(p)
  /\ started < MaxOps
  /\ started' = started + 1
  /\ proc' = [proc EXCEPT ![p] =
       [IdleProc EXCEPT !.op = "markSolution", !.pc = "solution_postCheck",
                        !.requester = userId, !.postId = postId,
                        !.commentId = commentId]]
  /\ UNCHANGED <<users, xp_post_comments, xp_daily_logins, videoWatchCooldowns,
                 clock, expected, lastWatchGrant, abandoned, probe,
                 community_comments, community_posts, video_likes, videos,
                 dailyGrants>>

\* SELECT author_id FROM community_posts WHERE id = $1, the 404 and the 403
solution_postCheck(p) ==
  /\ proc[p].pc = "solution_postCheck"
  /\ \E ok \in BOOLEAN :
       LET self == proc[p]
       IN  proc' = [proc EXCEPT ![p] =
             IF ~ok
             THEN ServerError(self)
             ELSE IF self.postId \notin Posts
             THEN [self EXCEPT !.pc = "done",
                     !.res = [status |-> 404, error |-> "Post not found"]]
             ELSE IF PostRow[self.postId].author_id # self.requester
             THEN [self EXCEPT !.pc = "done",
                     !.res = [status |-> 403,
                       error |-> "Only the post author can mark solutions"]]
             ELSE [self EXCEPT !.pc = "solution_commentCheck"]]
  /\ UNCHANGED <<users, xp_post_comments, xp_daily_logins, videoWatchCooldowns,
                 clock, expected, lastWatchGrant, abandoned, probe, started,
                 community_comments, community_posts, video_likes, videos,
                 dailyGrants>>

\* rows of SELECT user_id FROM community_comments WHERE id = $1 AND post_id = $2
SolutionCommentRows(commentId, postId) ==
  {c \in Comments : c = commentId /\ CommentRow[c].post_id = postId}

\* the comment lookup and its 404
solution_commentCheck(p) ==
  /\ proc[p].pc = "solution_commentCheck"
  /\ \E ok \in BOOLEAN :
       LET self == proc[p]
           rows == SolutionCommentRows(self.commentId, self.postId)
       IN  proc' = [proc EXCEPT ![p] =
             IF ~ok
             THEN ServerError(self)
             ELSE IF rows = {}
             THEN [self EXCEPT !.pc = "done",
                     !.res = [status |-> 404, error |-> "Comment not found"]]
             ELSE [self EXCEPT !.pc = "solution_clear",
                     !.helperUserId =
                        CommentRow[CHOOSE c \in rows : TRUE].user_id]]
  /\ UNCHANGED <<users, xp_post_comments, xp_daily_logins, videoWatchCooldowns,
                 clock, expected, lastWatchGrant, abandoned, probe, started,
                 community_comments, community_posts, video_likes, videos,
                 dailyGrants>>

\* UPDATE community_comments SET is_solution = false WHERE post_id = $1
solution_clear(p) ==
  /\ proc[p].pc = "solution_clear"
  /\ LET self == proc[p]
     IN  \E ok \in BOOLEAN :
           IF ok
           THEN /\ community_comments' =
                     [c \in Comments |->
                        IF CommentRow[c].post_id = self.postId
                        THEN [is_solution |-> FALSE]
                        ELSE community_comments[c]]
                /\ proc' = [proc EXCEPT ![p].pc = "solution_set"]
           ELSE /\ proc' = [proc EXCEPT ![p] = ServerError(self)]
                /\ UNCHANGED community_comments
  /\ UNCHANGED <<users, xp_post_comments, xp_daily_logins, videoWatchCooldowns,
                 clock, expected, lastWatchGrant, abandoned, probe, started,
                 community_posts, video_likes, videos, dailyGrants>>

\* UPDATE community_comments SET is_solution = true WHERE id = $1 AND post_id = $2
solution_set(p) ==
  /\ proc[p].pc = "solution_set"
  /\ LET self == proc[p]
     IN  \E ok \in BOOLEAN :
           IF ok
           THEN /\ community_comments' =
                     [c \in Comments |->
                        IF c = self.commentId
                             /\ CommentRow[c].post_id = self.postId
                        THEN [is_solution |-> TRUE]
                        ELSE community_comments[c]]
                /\ proc' = [proc EXCEPT ![p].pc = "solution_status"]
           ELSE /\ proc' = [proc EXCEPT ![p] = ServerError(self)]
                /\ UNCHANGED community_comments
  /\ UNCHANGED <<users, xp_post_comments, xp_daily_logins, videoWatchCooldowns,
                 clock, expected, lastWatchGrant, abandoned, probe, started,
                 community_posts, video_likes, videos, dailyGrants>>

\* mutant: the author of the marked comment is rewarded whoever it is
GrantsHelper_anyAuthor(helperUserId, userId) == helperUserId # ""

\* helperUserId && helperUserId !== req.userId
GrantsHelper(helperUserId, userId) ==
  helperUserId # "" /\ helperUserId # userId

\* UPDATE community_posts SET status = 'solved' WHERE id = $2, then either
\* awardXpDirect(helperUserId, XP_REWARDS.post_solved) is entered or the
\* request is answered
solution_status(p) ==
  /\ proc[p].pc = "solution_status"
  /\ LET self == proc[p]
     IN  \E ok \in BOOLEAN :
           IF ok
           THEN /\ community_posts' =
                     [community_posts EXCEPT ![self.postId].status = "solved"]
                /\ proc' = [proc EXCEPT ![p] =
                     IF GrantsHelper(self.helperUserId, self.requester)
                     THEN awardXpDirect_enter(self, self.helperUserId,
                                              Num(XP_REWARDS.post_solved))
                     ELSE Return(self, [success |-> FALSE])]
           ELSE /\ proc' = [proc EXCEPT ![p] = ServerError(self)]
                /\ UNCHANGED community_posts
  /\ UNCHANGED <<users, xp_post_comments, xp_daily_logins, videoWatchCooldowns,
                 clock, expected, lastWatchGrant, abandoned, probe, started,
                 community_comments, video_likes, videos, dailyGrants>>

\* ----------------------------------------------------- POST /:id/like

\* the request arrives; the lookup of the caller's like is issued
like(p, userId, videoId) ==
  /\ Free(p)
  /\ started < MaxOps
  /\ started' = started + 1
  /\ proc' = [proc EXCEPT ![p] =
       [IdleProc EXCEPT !.op = "like", !.pc = "like_select",
                        !.userId = userId, !.videoId = videoId]]
  /\ UNCHANGED <<users, xp_post_comments, xp_daily_logins, videoWatchCooldowns,
                 clock, expected, lastWatchGrant, abandoned, probe,
                 community_comments, community_posts, video_likes, videos,
                 dailyGrants>>

\* rows of SELECT id FROM video_likes WHERE user_id = $1 AND video_id = $2
LikeRows(userId, videoId) ==
  {l \in video_likes : l[1] = userId /\ l[2] = videoId}

\* the lookup, and the choice between removing and adding the like
like_select(p) ==
  /\ proc[p].pc = "like_select"
  /\ \E ok \in BOOLEAN :
       LET self == proc[p]
       IN  proc' = [proc EXCEPT ![p] =
             IF ~ok
             THEN ServerError(self)
             ELSE IF LikeRows(self.userId, self.videoId) # {}
             THEN [self EXCEPT !.pc = "like_delete", !.existing = TRUE]
             ELSE [self EXCEPT !.pc = "like_insert", !.existing = FALSE]]
  /\ UNCHANGED <<users, xp_post_comments, xp_daily_logins, videoWatchCooldowns,
                 clock, expected, lastWatchGrant, abandoned, probe, started,
                 community_comments, community_posts, dailyGrants, video_likes, videos>>

\* DELETE FROM video_likes WHERE user_id = $1 AND video_id = $2
like_delete(p) ==
  /\ proc[p].pc = "like_delete"
  /\ LET self == proc[p]
     IN  \E ok \in BOOLEAN :
           IF ok
           THEN /\ video_likes' =
                     video_likes \ LikeRows(self.userId, self.videoId)
                /\ proc' = [proc EXCEPT ![p].pc = "like_decrement"]
           ELSE /\ proc' = [proc EXCEPT ![p] = ServerError(self)]
                /\ UNCHANGED video_likes
  /\ UNCHANGED <<users, xp_post_comments, xp_daily_logins, videoWatchCooldowns,
                 clock, expected, lastWatchGrant, abandoned, probe, started,
                 community_comments, community_posts, dailyGrants, videos>>

\* UPDATE videos SET likes_count = likes_count - 1 WHERE id = $1
LikesAfterUnlike(videoId) ==
  IF videoId \in Videos
  THEN [videos EXCEPT ![videoId].likes_count = @ - 1]
  ELSE videos

\* UPDATE videos SET likes_count = likes_count + 1 WHERE id = $1
LikesAfterLike(videoId) ==
  IF videoId \in Videos
  THEN [videos EXCEPT ![videoId].likes_count = @ + 1]
  ELSE videos

\* the UPDATE of the counter after the DELETE
like_decrement(p) ==
  /\ proc[p].pc = "like_decrement"
  /\ LET self == proc[p]
     IN  \E ok \in BOOLEAN :
           IF ok
           THEN /\ videos' = LikesAfterUnlike(self.videoId)
                /\ proc' = [proc EXCEPT ![p].pc = "like_respond"]
           ELSE /\ proc' = [proc EXCEPT ![p] = ServerError(self)]
                /\ UNCHANGED videos
  /\ UNCHANGED <<users, xp_post_comments, xp_daily_logins, videoWatchCooldowns,
                 clock, expected, lastWatchGrant, abandoned, probe, started,
                 community_comments, community_posts, dailyGrants, video_likes>>

\* INSERT INTO video_likes (user_id, video_id): both columns reference their
\* tables and the pair is UNIQUE, so a second row of the pair is rejected
like_insert(p) ==
  /\ proc[p].pc = "like_insert"
  /\ LET self == proc[p]
     IN  \E ok \in BOOLEAN :
           IF /\ ok
              /\ ReferencesUser(self.userId)
              /\ self.videoId \in Videos
              /\ LikeRows(self.userId, self.videoId) = {}
           THEN /\ video_likes' =
                     video_likes \cup {<<self.userId, self.videoId>>}
                /\ proc' = [proc EXCEPT ![p].pc = "like_increment"]
           ELSE /\ proc' = [proc EXCEPT ![p] = ServerError(self)]
                /\ UNCHANGED video_likes
  /\ UNCHANGED <<users, xp_post_comments, xp_daily_logins, videoWatchCooldowns,
                 clock, expected, lastWatchGrant, abandoned, probe, started,
                 community_comments, community_posts, dailyGrants, videos>>

\* the UPDATE of the counter after the INSERT
like_increment(p) ==
  /\ proc[p].pc = "like_increment"
  /\ LET self == proc[p]
     IN  \E ok \in BOOLEAN :
           IF ok
           THEN /\ videos' = LikesAfterLike(self.videoId)
                /\ proc' = [proc EXCEPT ![p].pc = "like_respond"]
           ELSE /\ proc' = [proc EXCEPT ![p] = ServerError(self)]
                /\ UNCHANGED videos
  /\ UNCHANGED <<users, xp_post_comments, xp_daily_logins, videoWatchCooldowns,
                 clock, expected, lastWatchGrant, abandoned, probe, started,
                 community_comments, community_posts, dailyGrants, video_likes>>

\* SELECT likes_count FROM videos WHERE id = $1 (on the like branch also the
\* author lookup and the notification) and the response
like_respond(p) ==
  /\ proc[p].pc = "like_respond"
  /\ \E ok \in BOOLEAN :
       LET self == proc[p]
       IN  proc' = [proc EXCEPT ![p] =
             IF ~ok
             THEN ServerError(self)
             ELSE [self EXCEPT !.pc = "done",
                     !.res = [status |-> 200, liked |-> ~self.existing,
                              likesCount |->
                                videos[self.videoId].likes_count]]]
  /\ UNCHANGED <<users, xp_post_comments, xp_daily_logins, videoWatchCooldowns,
                 clock, expected, lastWatchGrant, abandoned, probe, started,
                 community_comments, community_posts, dailyGrants, video_likes, videos>>

\* ---------------------------------------------------- POST /:id/watch

VIDEO_WATCH_XP_COOLDOWN_MS == 5 * 60 * 1000

\* a watch request arrives; the video lookup is issued
watch(p, userId, videoId) ==
  /\ Free(p)
  /\ started < MaxOps
  /\ started' = started + 1
  /\ proc' = [proc EXCEPT ![p] =
       [IdleProc EXCEPT !.op = "watch", !.pc = "watch_video",
                        !.userId = userId, !.videoId = videoId]]
  /\ UNCHANGED <<community_comments, community_posts, video_likes, videos,
               dailyGrants, xp_daily_logins, abandoned, probe, lastWatchGrant, users, xp_post_comments, videoWatchCooldowns, clock, expected>>

\* SELECT id FROM videos WHERE id = $1
watch_video(p) ==
  /\ proc[p].pc = "watch_video"
  /\ \E ok \in BOOLEAN :
       proc' = [proc EXCEPT ![p] =
         IF ~ok
         THEN [proc[p] EXCEPT !.pc = "done",
                 !.res = [status |-> 500, error |-> "Server error"]]
         ELSE IF proc[p].videoId \notin Videos
         THEN [proc[p] EXCEPT !.pc = "done",
                 !.res = [status |-> 404, error |-> "Video not found"]]
         ELSE [proc[p] EXCEPT !.pc = "watch_check"]]
  /\ UNCHANGED <<community_comments, community_posts, video_likes, videos,
               dailyGrants, xp_daily_logins, abandoned, probe, lastWatchGrant, users, xp_post_comments, videoWatchCooldowns, clock,
                 expected, started>>

\* mutant: a request exactly one window after the last grant is still suppressed
CooldownActive_inclusive(lastWatchTime, now) ==
  lastWatchTime # 0 /\ (now - lastWatchTime) <= VIDEO_WATCH_XP_COOLDOWN_MS

\* lastWatchTime && (now - lastWatchTime) < VIDEO_WATCH_XP_COOLDOWN_MS
CooldownActive(lastWatchTime, now) ==
  lastWatchTime # 0 /\ (now - lastWatchTime) < VIDEO_WATCH_XP_COOLDOWN_MS

\* mutant: a suppressed request restarts the window of its key
CooldownsAfterSuppressed_refresh(cooldownKey, now) ==
  [videoWatchCooldowns EXCEPT ![cooldownKey] = now]

\* the map after a suppressed request: that branch has no videoWatchCooldowns.set
CooldownsAfterSuppressed(cooldownKey, now) == videoWatchCooldowns

\* the cooldown check: reads the map and Date.now(); suppressed requests are
\* answered here, the others enter awardXp(userId, 'video_watch')
watch_check(p) ==
  /\ proc[p].pc = "watch_check"
  /\ \E d \in ClockSteps :
       LET self == proc[p]
           lastWatchTime == videoWatchCooldowns[<<self.userId, self.videoId>>]
           now == clock + d
           here == [self EXCEPT !.now = now, !.lastWatchTime = lastWatchTime]
       IN  /\ now <= MaxClock
           /\ clock' = now
           /\ proc' = [proc EXCEPT ![p] =
                IF CooldownActive(lastWatchTime, now)
                THEN [here EXCEPT !.pc = "done",
                        !.res = [status |-> 200, success |-> TRUE,
                                 xpAwarded |-> 0]]
                ELSE awardXp_enter(here, self.userId, "video_watch")]
           /\ videoWatchCooldowns' =
                IF CooldownActive(lastWatchTime, now)
                THEN CooldownsAfterSuppressed(<<self.userId, self.videoId>>, now)
                ELSE videoWatchCooldowns
  /\ UNCHANGED <<community_comments, community_posts, video_likes, videos,
               dailyGrants, xp_daily_logins, abandoned, probe, lastWatchGrant, users, xp_post_comments, expected, started>>

\* mutant: the timestamp of an earlier grant is kept
CooldownsAfterGrant_keepFirst(cooldownKey, now) ==
  IF videoWatchCooldowns[cooldownKey] # 0
  THEN videoWatchCooldowns
  ELSE [videoWatchCooldowns EXCEPT ![cooldownKey] = now]

\* videoWatchCooldowns.set(cooldownKey, now)
CooldownsAfterGrant(cooldownKey, now) ==
  [videoWatchCooldowns EXCEPT ![cooldownKey] = now]

\* after a successful awardXp: videoWatchCooldowns.set(cooldownKey, now) and
\* the response
watch_respond(p) ==
  /\ proc[p].pc = "watch_respond"
  /\ LET self == proc[p]
         xpResult == self.res
     IN  /\ videoWatchCooldowns' =
              CooldownsAfterGrant(<<self.userId, self.videoId>>, self.now)
         /\ proc' = [proc EXCEPT ![p] =
              [self EXCEPT !.pc = "done",
                 !.res = [status |-> 200, success |-> TRUE,
                          xpAwarded |-> xpResult.xpAwarded,
                          totalXp |-> xpResult.xp,
                          level |-> xpResult.level]]]
  /\ UNCHANGED <<community_comments, community_posts, video_likes, videos,
               dailyGrants, xp_daily_logins, abandoned, probe, lastWatchGrant, users, xp_post_comments, clock, expected, started>>

\* mutant: the cooldown timestamps outlive the process
CooldownsAfterRestart_persisted == videoWatchCooldowns

\* const videoWatchCooldowns = new Map(): the map a new process starts with
CooldownsAfterRestart == [k \in CooldownKeys |-> 0]

\* the process is restarted: its memory (the cooldown map, the requests in
\* flight) is gone, the database is as it was left
Restart ==
  /\ videoWatchCooldowns' = CooldownsAfterRestart
  /\ proc' = [p \in Procs |->
       IF InFlight(p) THEN [proc[p] EXCEPT !.pc = "stopped"] ELSE proc[p]]
  /\ UNCHANGED <<users, xp_post_comments, xp_daily_logins, clock, expected,
                 lastWatchGrant, abandoned, started, probe,
                 community_comments, community_posts, video_likes, videos,
                 dailyGrants>>

\* ------------------------------------------------------------------ Next

\* the request slots are interchangeable: a new request takes the first
\* slot that holds no request in flight
FirstFree(p) == \A q \in Procs : q < p => InFlight(q)

\* requests that call the grant functions directly
GrantNext ==
  \E p \in Procs :
    \/ \E u \in Callers, a \in ActionInputs :
         FirstFree(p) /\ awardXp(p, u, a)
    \/ awardXp_select(p)
    \/ awardXp_update(p)
    \/ \E u \in Callers, n \in AmountInputs :
         FirstFree(p) /\ awardXpDirect(p, u, n)
    \/ awardXpDirect_select(p)
    \/ awardXpDirect_update(p)

\* requests that reward a comment once per (user, post)
CommentNext ==
  \E p \in Procs :
    \/ \E u \in Callers, post \in Posts :
         FirstFree(p) /\ awardCommentXp(p, u, post)
    \/ hasCommentXpForPost(p)
    \/ awardCommentXp_insert(p)
    \/ awardXpDirect_select(p)
    \/ awardXpDirect_update(p)

\* watch requests
WatchNext ==
  \E p \in Procs :
    \/ \E u \in Callers, v \in Videos :
         FirstFree(p) /\ watch(p, u, v)
    \/ watch_video(p)
    \/ watch_check(p)
    \/ awardXp_select(p)
    \/ awardXp_update(p)
    \/ watch_respond(p)

\* the post the comments of these runs are written under
OncePosts == {"p1"}

\* these runs start with u1 at no experience
OnceInit == Init /\ users["u1"].xp = 0

\* once-per-scope grants, any of which may be cut short by a stop
OnceNext ==
  \E p \in Procs :
    \/ \E u \in Callers, post \in OncePosts :
         FirstFree(p) /\ awardCommentXp(p, u, post)
    \/ hasCommentXpForPost(p)
    \/ awardCommentXp_insert(p)
    \/ \E u \in Callers : FirstFree(p) /\ awardDailyLoginXp(p, u)
    \/ awardDailyLoginXp_select(p)
    \/ awardDailyLoginXp_insert(p)
    \/ awardXpDirect_select(p)
    \/ awardXpDirect_update(p)
    \/ Abandon(p)

\* the callers of the routes whose own INSERT needs the caller's account
Authors == {"u1"}

\* the caller has no request in flight
CallerFree(userId) ==
  \A q \in Procs : ~(InFlight(q) /\ proc[q].userId = userId)

\* the routes whose answer carries a reward, at one instant of the clock: a
\* caller uploads, posts, comments and logs in while nothing else of that
\* caller is in flight; watch requests arrive at any time
RoutesNext ==
  \E p \in Procs :
    \/ \E u \in Authors : FirstFree(p) /\ CallerFree(u) /\ upload(p, u)
    \/ \E u \in Authors : FirstFree(p) /\ CallerFree(u) /\ createPost(p, u)
    \/ \E u \in Authors, post \in OncePosts :
         FirstFree(p) /\ CallerFree(u) /\ createComment(p, u, post)
    \/ \E u \in Authors :
         FirstFree(p) /\ CallerFree(u) /\ login(p, u) /\ clock' = clock
    \/ \E u \in Callers, v \in Videos : FirstFree(p) /\ watch(p, u, v)
    \/ watch_video(p)
    \/ watch_check(p) /\ clock' = clock
    \/ awardXp_select(p)
    \/ awardXp_update(p)
    \/ watch_respond(p)
    \/ hasCommentXpForPost(p)
    \/ awardCommentXp_insert(p)
    \/ awardDailyLoginXp_select(p)
    \/ awardDailyLoginXp_insert(p)
    \/ awardXpDirect_select(p)
    \/ awardXpDirect_update(p)

\* ------------------------------------------- the level function on its own

\* experience values the level function is applied to
ProbeXps == (0..LevelProbeMax) \cup {1000000}

LevelInit ==
  /\ InitStore
  /\ \E e \in ProbeXps :
       probe = [xp |-> e, level |-> 0, nextLevelXp |-> -1, currentLevelXp |-> -1]

\* calculateLevelFromXp(xp) is called and its value kept
ProbeLevel ==
  /\ probe.level = 0
  /\ probe' = [probe EXCEPT !.level = calculateLevelFromXp(probe.xp)]
  /\ UNCHANGED <<community_comments, community_posts, video_likes, videos,
               dailyGrants, users, xp_post_comments, xp_daily_logins, videoWatchCooldowns,
                 clock, proc, expected, lastWatchGrant, abandoned, started>>

\* getNextLevelXp(level) and getCurrentLevelXp(level) are called for the level
\* just computed and their values kept (as the login and profile answers do)
ProbeLevelXp ==
  /\ probe.level # 0
  /\ probe.nextLevelXp = -1
  /\ probe' = [probe EXCEPT !.nextLevelXp = getNextLevelXp(probe.level),
                            !.currentLevelXp = getCurrentLevelXp(probe.level)]
  /\ UNCHANGED <<community_comments, community_posts, video_likes, videos,
               dailyGrants, users, xp_post_comments, xp_daily_logins, videoWatchCooldowns,
                 clock, proc, expected, lastWatchGrant, abandoned, started>>

LevelNext == ProbeLevel \/ ProbeLevelXp

\* no watch request for (userId, videoId) is being handled
KeyFree(userId, videoId) ==
  \A q \in Procs :
    ~(proc[q].op = "watch" /\ InFlight(q)
        /\ proc[q].userId = userId /\ proc[q].videoId = videoId)

\* watch requests, those for one (user, video) key arriving one after another
WatchSeqNext ==
  \E p \in Procs :
    \/ \E u \in Callers, v \in Videos \cup {NoVideo} :
         FirstFree(p) /\ KeyFree(u, v) /\ watch(p, u, v)
    \/ watch_video(p)
    \/ watch_check(p)
    \/ awardXp_select(p)
    \/ awardXp_update(p)
    \/ watch_respond(p)

\* the actions of the catalog
CatalogActions == DOMAIN XP_REWARDS

\* u1 and u2 start from the same stored (experience, level)
PairInit ==
  /\ \E e \in StartXp :
       users = [u \in Users |-> [xp |-> e, level |-> calculateLevelFromXp(e)]]
  /\ xp_post_comments = {}
  /\ xp_daily_logins = {}
  /\ videoWatchCooldowns = [k \in CooldownKeys |-> 0]
  /\ clock = ClockStart
  /\ proc = [p \in Procs |-> IdleProc]
  /\ expected = [u \in Users |-> users[u].xp]
  /\ lastWatchGrant = [k \in CooldownKeys |-> 0]
  /\ abandoned = [comments |-> {}, logins |-> {}]
  /\ started = 0
  /\ probe = [xp |-> 0, level |-> 0, nextLevelXp |-> -1, currentLevelXp |-> -1]
  /\ community_comments = [c \in Comments |-> [is_solution |-> FALSE]]
  /\ community_posts = [post \in Posts |-> [status |-> "open"]]
  /\ video_likes = {}
  /\ videos = [v \in Videos |-> [likes_count |-> 0]]
  /\ dailyGrants = {}

\* awardXp(u1, a) in slot 1, and awardXpDirect(u2, XP_REWARDS[a]) for the same
\* a in slot 2
PairNext ==
  \/ \E a \in CatalogActions :
       proc[1].op = "idle" /\ awardXp(1, "u1", a)
  \/ /\ proc[1].op = "awardXp" /\ proc[2].op = "idle"
     /\ awardXpDirect(2, "u2", Lookup(proc[1].actionType))
  \/ awardXp_select(1)
  \/ awardXp_update(1)
  \/ awardXpDirect_select(2)
  \/ awardXpDirect_update(2)

\* the 'mark as solution' requests followed: u1, the author of p1, marks
\* either comment or one that does not exist; u2 tries to mark the own answer;
\* u1 names a post that does not exist
SolutionInputs ==
  {<<"u1", "p1", "c1">>, <<"u1", "p1", "c2">>, <<"u1", "p1", NoComment>>,
   <<"u2", "p1", "c1">>, <<"u1", NoPost, "c1">>}

\* 'mark as solution' requests, any number of them in flight together
SolutionNext ==
  \E p \in Procs :
    \/ \E i \in SolutionInputs :
         FirstFree(p) /\ markSolution(p, i[1], i[2], i[3])
    \/ solution_postCheck(p)
    \/ solution_commentCheck(p)
    \/ solution_clear(p)
    \/ solution_set(p)
    \/ solution_status(p)
    \/ awardXpDirect_select(p)
    \/ awardXpDirect_update(p)

\* like toggles on one video, any number of them in flight together
LikeNext ==
  \E p \in Procs :
    \/ \E u \in Users, v \in Videos : FirstFree(p) /\ like(p, u, v)
    \/ like_select(p)
    \/ like_delete(p)
    \/ like_decrement(p)
    \/ like_insert(p)
    \/ like_increment(p)
    \/ like_respond(p)

\* no login of this user is in flight
LoginFree(userId) ==
  \A q \in Procs :
    ~(proc[q].op \in {"login", "awardDailyLoginXp"} /\ InFlight(q)
        /\ proc[q].userId = userId)

\* logins, those of one user arriving one after another
LoginSeqNext ==
  \E p \in Procs :
    \/ \E u \in Callers : FirstFree(p) /\ LoginFree(u) /\ login(p, u)
    \/ \E u \in Callers :
         FirstFree(p) /\ LoginFree(u) /\ awardDailyLoginXp(p, u)
    \/ awardDailyLoginXp_select(p)
    \/ awardDailyLoginXp_insert(p)
    \/ awardXpDirect_select(p)
    \/ awardXpDirect_update(p)

\* watch requests of one key after another, across restarts of the process
RestartNext == WatchSeqNext \/ Restart

Next ==
  \/ GrantNext \/ CommentNext \/ WatchNext \/ OnceNext \/ RoutesNext
  \/ LevelNext \/ RestartNext \/ LoginSeqNext \/ PairNext \/ SolutionNext
  \/ LikeNext

Spec == Init /\ [][Next]_vars
SpecGrant == Init /\ [][GrantNext]_vars
SpecComment == Init /\ [][CommentNext]_vars
SpecWatch == OnceInit /\ [][WatchNext]_vars
SpecWatchSeq == Init /\ [][WatchSeqNext]_vars
SpecLevel == LevelInit /\ [][LevelNext]_vars
SpecOnce == OnceInit /\ [][OnceNext]_vars
SpecRoutes == OnceInit /\ [][RoutesNext]_vars
SpecRestart == OnceInit /\ [][RestartNext]_vars
SpecLoginSeq == OnceInit /\ [][LoginSeqNext]_vars
SpecPair == PairInit /\ [][PairNext]_vars
SpecSolution == OnceInit /\ [][SolutionNext]_vars
SpecLike == OnceInit /\ [][LikeNext]_vars

\* ================================================================ properties

Done(p) == proc[p].pc = "done"
HasField(r, f) == f \in DOMAIN r
\* the request in slot p took this step
Stepped(p) == proc'[p] # proc[p]

\* C1: no lost updates - once no grant for a user is in flight, the stored
\* experience is the initial experience plus the amounts of all grants that
\* returned success, whatever the interleaving of their reads and writes.
C1_NoLostUpdates ==
  \A u \in Users :
    (\A p \in Procs : InFlight(p) => proc[p].userId # u)
      => users[u].xp = expected[u]

\* C2: once per scope - two awardCommentXp calls for the same user and the
\* same post never both return awarded = true.
C2_OncePerScope ==
  \A p, q \in Procs :
    ( /\ p # q
      /\ Done(p) /\ Done(q)
      /\ proc[p].op = "awardCommentXp" /\ proc[q].op = "awardCommentXp"
      /\ proc[p].userId = proc[q].userId
      /\ proc[p].postId = proc[q].postId )
    => ~(proc[p].res.awarded /\ proc[q].res.awarded)

\* C3: stored experience is monotonically non-decreasing - no step lowers a
\* user's stored experience, and it is never negative.
C3_Monotonic ==
  [][\A u \in Users : users'[u].xp >= users[u].xp /\ users'[u].xp >= 0]_vars

\* C4: the stored pair always satisfies level = calculateLevelFromXp(xp) with
\* level in 1..5, and the level of a success result is the level function of
\* the experience in that same result.
C4_LevelConsistent ==
  /\ \A u \in Users :
       /\ users[u].level = calculateLevelFromXp(users[u].xp)
       /\ users[u].level \in 1..5
  /\ \A p \in Procs :
       (HasField(proc[p].res, "xp") /\ proc[p].res.success)
         => proc[p].res.level = calculateLevelFromXp(proc[p].res.xp)

\* a grant has raised a user's level and reported it
C4_Witness ==
  \E p \in Procs :
    /\ Done(p) /\ proc[p].op = "awardXpDirect"
    /\ HasField(proc[p].res, "leveledUp") /\ proc[p].res.leveledUp
    /\ users[proc[p].userId].level >= 2

\* C5: for every experience e >= 0 the level function returns a level in
\* 1..5, and it is non-decreasing: no smaller experience has a higher level.
C5_LevelMonotone ==
  probe.level # 0 =>
    /\ probe.level \in 1..5
    /\ \A e1 \in 0..LevelProbeMax :
         e1 <= probe.xp => calculateLevelFromXp(e1) <= probe.level

\* the level of an experience value inside the top band has been computed
C5_Witness == probe.level = 5 /\ probe.xp = 1000

\* C6: every non-negative experience lies in exactly one band, and the level
\* is 1 for 0..99, 2 for 100..249, 3 for 250..499, 4 for 500..999 and 5 from
\* 1000 on (1000000 included).
C6_BandBoundaries ==
  probe.level # 0 =>
    /\ Cardinality({i \in 1..Len(LEVEL_THRESHOLDS) :
                      InBand(probe.xp, LEVEL_THRESHOLDS[i])}) = 1
    /\ probe.level =
         CASE probe.xp <= 99  -> 1
           [] probe.xp \in 100..249 -> 2
           [] probe.xp \in 250..499 -> 3
           [] probe.xp \in 500..999 -> 4
           [] probe.xp >= 1000 -> 5

\* the level of 1000000 has been computed
C6_Witness == probe.xp = 1000000 /\ probe.level = 5

FiveMinutes == 300000

\* C7: throttled watch reward - with the watch requests of one (user, video)
\* key handled one after another, a request is suppressed (xpAwarded 0,
\* experience untouched) exactly when an earlier request of the key was
\* granted less than 5 minutes before it, and otherwise goes on to the
\* video_watch grant: it is granted again once now - last >= 5 minutes.  A
\* grant adds the video_watch amount and is answered with it.
C7_Throttle ==
  [][\A p \in Procs :
       /\ (proc[p].pc = "watch_check" /\ Stepped(p)) =>
            LET last == lastWatchGrant[<<proc[p].userId, proc[p].videoId>>]
                now == proc'[p].now
            IN  IF last # 0 /\ now - last < FiveMinutes
                THEN /\ proc'[p].pc = "done"
                     /\ proc'[p].res.status = 200
                     /\ proc'[p].res.success
                     /\ proc'[p].res.xpAwarded = 0
                     /\ users' = users
                ELSE /\ proc'[p].pc = "awardXp_select"
                     /\ proc'[p].amount = XP_REWARDS.video_watch
       /\ (proc[p].op = "watch" /\ proc[p].pc = "awardXp_update"
             /\ proc'[p].pc = "watch_respond") =>
            users'[proc[p].userId].xp
              = users[proc[p].userId].xp + XP_REWARDS.video_watch
       /\ (proc[p].pc = "watch_respond" /\ Stepped(p)) =>
            /\ proc'[p].res.status = 200
            /\ proc'[p].res.xpAwarded = XP_REWARDS.video_watch
    ]_vars

\* a watch request made once the window of an earlier grant had elapsed has
\* granted again
C7_Witness ==
  \E p \in Procs :
    /\ Done(p) /\ proc[p].op = "watch"
    /\ proc[p].res.status = 200 /\ proc[p].res.xpAwarded = XP_REWARDS.video_watch
    /\ proc[p].lastWatchTime # 0
    /\ proc[p].now - proc[p].lastWatchTime >= FiveMinutes

\* C8: scopes are independent - awardCommentXp is suppressed at the marker
\* check only when the marker of its own (user, post) exists, and a call that
\* gets through grants the community_comment amount on top of what it read.
C8_ScopesIndependent ==
  [][\A p \in Procs :
       /\ (proc[p].pc = "hasCommentXpForPost" /\ Stepped(p)
             /\ <<proc[p].userId, proc[p].postId>> \notin xp_post_comments)
            => proc'[p].pc = "awardCommentXp_insert"
       /\ (proc[p].op = "awardCommentXp" /\ proc[p].pc = "awardXpDirect_update"
             /\ Stepped(p) /\ proc'[p].res.success /\ proc'[p].res.awarded)
            => /\ proc'[p].res.xpAwarded = XP_REWARDS.community_comment
               /\ users'[proc[p].userId].xp
                    = proc[p].currentXp + XP_REWARDS.community_comment
    ]_vars

\* one user has been rewarded for comments on two different posts
C8_Witness ==
  \E p, q \in Procs :
    /\ Done(p) /\ Done(q)
    /\ proc[p].op = "awardCommentXp" /\ proc[q].op = "awardCommentXp"
    /\ proc[p].userId = proc[q].userId
    /\ proc[p].postId # proc[q].postId
    /\ proc[p].res.awarded /\ proc[q].res.awarded

\* C9: awardXpDirect reads the stored (experience, level) of the user, and a
\* successful grant returns xp = that experience + amount, level =
\* calculateLevelFromXp(xp), xpAwarded = amount, leveledUp = (level > the
\* level read) and stores exactly (xp, level).
C9_GrantResult ==
  [][\A p \in Procs :
       /\ (proc[p].pc = "awardXpDirect_select" /\ Stepped(p)
             /\ proc'[p].pc = "awardXpDirect_update")
            => /\ proc'[p].currentXp = users[proc[p].userId].xp
               /\ proc'[p].currentLevel = users[proc[p].userId].level
       /\ (proc[p].op = "awardXpDirect" /\ proc[p].pc = "awardXpDirect_update"
             /\ Stepped(p) /\ proc'[p].res.success)
            => LET r == proc'[p].res
               IN  /\ r.xp = proc[p].currentXp + proc[p].amount
                   /\ r.level = calculateLevelFromXp(r.xp)
                   /\ r.xpAwarded = proc[p].amount
                   /\ r.leveledUp = (r.level > proc[p].currentLevel)
                   /\ users'[proc[p].userId] = [xp |-> r.xp, level |-> r.level]
    ]_vars

\* 10 points granted to a user at {experience 95, level 1} gave
\* {experience 105, level 2, leveledUp true}
C9_Witness ==
  \E p \in Procs :
    /\ Done(p) /\ proc[p].op = "awardXpDirect"
    /\ proc[p].res.success
    /\ proc[p].amount = 10
    /\ proc[p].res.xp = 105 /\ proc[p].res.level = 2 /\ proc[p].res.leveledUp
    /\ users[proc[p].userId] = [xp |-> 105, level |-> 2]

\* C10: awardXp and awardXpDirect for a user id that matches no user record
\* never reach their UPDATE, return success = false ('User not found' when
\* the lookup itself worked), and leave every user record as it was.
C10_UnknownUser ==
  [][\A p \in Procs :
       (Stepped(p) /\ proc'[p].op \in {"awardXp", "awardXpDirect"}
          /\ proc'[p].userId \notin Users)
         => /\ users' = users
            /\ DOMAIN users' = Users
            /\ proc'[p].pc \notin {"awardXp_update", "awardXpDirect_update"}
            /\ proc'[p].pc = "done" =>
                 /\ ~proc'[p].res.success
                 /\ (proc[p].pc \in {"awardXp_select", "awardXpDirect_select"}
                       /\ proc'[p].res.error # StorageError)
                      => proc'[p].res.error = "User not found"
    ]_vars

\* a grant for a missing user has been answered with 'User not found'
C10_Witness ==
  \E p \in Procs :
    /\ Done(p) /\ proc[p].op \in {"awardXp", "awardXpDirect"}
    /\ proc[p].userId = NoUser
    /\ ~proc[p].res.success /\ proc[p].res.error = "User not found"

\* C12: awardXp called with an action identifier that is not a key of the
\* action catalog returns at once with the failure 'Unknown action type':
\* no SELECT or UPDATE is issued and every user record stays as it was.
C12_UnknownAction ==
  [][\A p \in Procs :
       (Free(p) /\ Stepped(p) /\ proc'[p].op = "awardXp"
          /\ proc'[p].actionType \notin DOMAIN XP_REWARDS)
         => /\ proc'[p].pc = "done"
            /\ ~proc'[p].res.success
            /\ proc'[p].res.error = "Unknown action type"
            /\ users' = users
    ]_vars

\* C13: awardXpDirect called with an amount that is zero, negative or not an
\* integer returns at once with the failure 'Invalid XP amount': no SELECT or
\* UPDATE is issued and every user record stays as it was.
C13_InvalidAmount ==
  [][\A p \in Procs :
       (Free(p) /\ Stepped(p) /\ proc'[p].op = "awardXpDirect"
          /\ (proc'[p].amount <= 0 \/ ~proc'[p].exact))
         => /\ proc'[p].pc = "done"
            /\ ~proc'[p].res.success
            /\ proc'[p].res.error = "Invalid XP amount"
            /\ users' = users
    ]_vars

\* C11: awardCommentXp and awardDailyLoginXp called for a user id that matches
\* no user record return a failure (success = false, awarded = false), never
\* reach awardXpDirect, and leave both marker tables and every user record as
\* they were.
C11_MissingUser ==
  [][\A p \in Procs :
       (Stepped(p) /\ proc'[p].op \in {"awardCommentXp", "awardDailyLoginXp"}
          /\ proc'[p].userId \notin Users)
         => /\ xp_post_comments' = xp_post_comments
            /\ xp_daily_logins' = xp_daily_logins
            /\ users' = users
            /\ proc'[p].pc \notin {"awardXpDirect_select", "awardXpDirect_update"}
            /\ proc'[p].pc = "done" =>
                 (~proc'[p].res.success /\ ~proc'[p].res.awarded)
    ]_vars

\* both grants have been tried for the missing user, their marker INSERTs were
\* rejected, and no marker row exists
C11_Witness ==
  \E p, q \in Procs :
    /\ Done(p) /\ proc[p].op = "awardCommentXp" /\ proc[p].userId = NoUser
    /\ Done(q) /\ proc[q].op = "awardDailyLoginXp" /\ proc[q].userId = NoUser
    /\ ~proc[p].res.success /\ ~proc[q].res.success
    /\ xp_post_comments = {} /\ xp_daily_logins = {}

\* the marker of the scope request p is about exists
MarkerExists(p) ==
  IF proc[p].op \in {"awardCommentXp", "createComment"}
  THEN <<proc[p].userId, proc[p].postId>> \in xp_post_comments
  ELSE <<proc[p].userId, proc[p].today>> \in xp_daily_logins

\* request p has been answered without a grant: awarded = false, and either
\* success = true or the explicit failure of a rejected query
NotAwarded(r) ==
  /\ ~r.awarded
  /\ r.success \/ (HasField(r, "error") /\ r.error = StorageError)

\* C14: when the marker of its scope already exists, awardCommentXp /
\* awardDailyLoginXp is answered at its marker lookup with awarded = false
\* (success = true unless the lookup query is reported as failed), and user
\* records and both marker tables stay as they were.
C14_DuplicateSuppressed ==
  [][\A p \in Procs :
       (proc[p].op \in {"awardCommentXp", "awardDailyLoginXp"}
          /\ proc[p].pc \in {"hasCommentXpForPost", "awardDailyLoginXp_select"}
          /\ MarkerExists(p) /\ Stepped(p))
         => /\ proc'[p].pc = "done"
            /\ NotAwarded(proc'[p].res)
            /\ users' = users
            /\ xp_post_comments' = xp_post_comments
            /\ xp_daily_logins' = xp_daily_logins
    ]_vars

\* C15: a marker INSERT that finds the marker already there (it inserts no
\* row) ends the call with awarded = false: awardXpDirect is not entered and
\* no user record changes.
C15_LostInsertRace ==
  [][\A p \in Procs :
       (proc[p].pc \in {"awardCommentXp_insert", "awardDailyLoginXp_insert"}
          /\ MarkerExists(p) /\ Stepped(p))
         => /\ proc'[p].pc = "done"
            /\ ~proc'[p].res.awarded
            /\ users' = users
    ]_vars

\* C17: when awardXpDirect fails inside awardCommentXp / awardDailyLoginXp,
\* the marker being written already, the call returns success = false.
C17_FailureAfterMarker ==
  [][\A p \in Procs :
       (proc[p].op \in {"awardCommentXp", "awardDailyLoginXp"}
          /\ proc[p].pc \in {"awardXpDirect_select", "awardXpDirect_update"}
          /\ proc'[p].pc = "done" /\ ~proc'[p].res.awarded)
         => ~proc'[p].res.success
    ]_vars

\* C19: the marker is written before the experience is updated; when a grant
\* stops between the two, its marker stays, no user record changes, and every
\* call that looks the marker of that scope up afterwards is answered with
\* awarded = false.
C19_AtMostOnceOnStop ==
  [][\A p \in Procs :
       /\ (proc[p].pc # "stopped" /\ proc'[p].pc = "stopped")
            => (MarkerExists(p) /\ users' = users
                  /\ xp_post_comments' = xp_post_comments
                  /\ xp_daily_logins' = xp_daily_logins)
       /\ (proc[p].pc = "hasCommentXpForPost" /\ Stepped(p)
             /\ <<proc[p].userId, proc[p].postId>> \in abandoned.comments)
            => (proc'[p].pc = "done" /\ ~proc'[p].res.awarded)
       /\ (proc[p].pc = "awardDailyLoginXp_select" /\ Stepped(p)
             /\ <<proc[p].userId, proc[p].today>> \in abandoned.logins)
            => (proc'[p].pc = "done" /\ ~proc'[p].res.awarded)
    ]_vars

\* the positions of a route inside or after its grant call
GrantPcs ==
  {"hasCommentXpForPost", "awardCommentXp_insert", "awardDailyLoginXp_select",
   "awardDailyLoginXp_insert", "awardXpDirect_select", "awardXpDirect_update",
   "awardXp_select", "awardXp_update", "watch_respond"}

\* C16: once a route's own storage work has succeeded and its grant has been
\* called, the route answers with its success status whatever the grant does:
\* 201 for video upload, post creation and comment creation, 200 for login
\* and watch.
C16_RewardNeverFailsRoute ==
  [][\A p \in Procs :
       (proc[p].pc \in GrantPcs /\ proc'[p].pc = "done")
         => /\ proc[p].op \in {"upload", "createPost", "createComment"}
                 => proc'[p].res.status = 201
            /\ proc[p].op \in {"login", "watch"}
                 => proc'[p].res.status = 200
    ]_vars

\* an upload was answered 201 although its grant failed (no points), and a
\* watch by a caller without a user record was answered 200
C16_Witness ==
  \E p, q \in Procs :
    /\ Done(p) /\ proc[p].op = "upload"
    /\ proc[p].res.status = 201 /\ proc[p].res.xpAwarded = 0
    /\ Done(q) /\ proc[q].op = "watch" /\ proc[q].userId = NoUser
    /\ proc[q].res.status = 200 /\ proc[q].res.xpAwarded = 0

\* C18: the progress figures agree with the bands. For the level L computed
\* for an experience e >= 0: getNextLevelXp(L) = getCurrentLevelXp(L + 1) when
\* L is 1..4, both figures are 1000 when L = 5, getCurrentLevelXp(L) <= e, and
\* e < getNextLevelXp(L) when L < 5.
C18_LevelProgress ==
  probe.nextLevelXp # -1 =>
    LET e == probe.xp
        L == probe.level
    IN  /\ L \in 1..4 => probe.nextLevelXp = getCurrentLevelXp(L + 1)
        /\ L = 5 => (probe.nextLevelXp = 1000 /\ probe.currentLevelXp = 1000)
        /\ probe.currentLevelXp <= e
        /\ L < 5 => e < probe.nextLevelXp

\* experience 499 is level 3, between the figures 250 and 500
C18_Witness ==
  /\ probe.xp = 499 /\ probe.level = 3
  /\ probe.currentLevelXp = 250 /\ probe.nextLevelXp = 500

\* C20: a watch request that finds a timestamp for its (user, video) key less
\* than five minutes old is answered {success: true, xpAwarded: 0} with
\* status 200 at the check itself, and the check changes neither a user
\* record nor the cooldown map.
C20_SuppressedWatch ==
  [][\A p \in Procs :
       (proc[p].pc = "watch_check" /\ Stepped(p)
          /\ videoWatchCooldowns[<<proc[p].userId, proc[p].videoId>>] # 0
          /\ proc'[p].now
               - videoWatchCooldowns[<<proc[p].userId, proc[p].videoId>>]
             < FiveMinutes)
         => /\ proc'[p].pc = "done"
            /\ proc'[p].res = [status |-> 200, success |-> TRUE, xpAwarded |-> 0]
            /\ users' = users
            /\ videoWatchCooldowns' = videoWatchCooldowns
    ]_vars

\* a watch 299999 ms after the grant that set the timestamp was suppressed:
\* the user keeps the 3 points of that grant and the timestamp is the old one
C20_Witness ==
  \E p \in Procs :
    /\ Done(p) /\ proc[p].op = "watch" /\ proc[p].userId \in Users
    /\ proc[p].lastWatchTime # 0
    /\ proc[p].now - proc[p].lastWatchTime = 299999
    /\ proc[p].res = [status |-> 200, success |-> TRUE, xpAwarded |-> 0]
    /\ videoWatchCooldowns[<<proc[p].userId, proc[p].videoId>>]
         = proc[p].lastWatchTime
    /\ users[proc[p].userId].xp = expected[proc[p].userId]
    /\ \E e \in StartXp : users[proc[p].userId].xp = e + XP_REWARDS.video_watch

\* C23: the marker alone decides. A call of awardCommentXp that finds the
\* marker of its (user, post) in the table when it is called changes no
\* user record at any of its steps, whether its marker lookup works or is
\* rejected.
C23_MarkerIsAuthority ==
  [][\A p \in Procs :
       (proc[p].op = "awardCommentXp" /\ proc[p].hadMarker /\ Stepped(p))
         => users' = users
    ]_vars

\* C21: the watch cooldown is volatile - a restart of the process empties the
\* cooldown map and keeps the user records, and a watch request that then
\* finds no entry for its key is not suppressed but performs the video_watch
\* grant, also when the last grant of that key is less than five minutes old.
C21_VolatileCooldown ==
  [][IF Restart
     THEN /\ \A k \in CooldownKeys : videoWatchCooldowns'[k] = 0
          /\ users' = users
     ELSE \A p \in Procs :
          /\ ( /\ proc[p].pc = "watch_check" /\ Stepped(p)
               /\ videoWatchCooldowns[<<proc[p].userId, proc[p].videoId>>] = 0 )
               => /\ proc'[p].pc = "awardXp_select"
                  /\ proc'[p].amount = XP_REWARDS.video_watch
          /\ ( /\ proc[p].op = "watch" /\ proc[p].pc = "awardXp_update"
               /\ proc[p].lastWatchTime = 0
               /\ proc'[p].pc = "watch_respond" )
               => users'[proc[p].userId].xp
                    = users[proc[p].userId].xp + XP_REWARDS.video_watch
    ]_vars

\* a user has been granted video_watch twice for one video within five
\* minutes, the second time by a request that found no cooldown entry
C21_Witness ==
  /\ clock - ClockStart < FiveMinutes
  /\ users["u1"].xp = 2 * XP_REWARDS.video_watch
  /\ \E p \in Procs :
       /\ Done(p) /\ proc[p].op = "watch"
       /\ proc[p].lastWatchTime = 0
       /\ proc[p].res.status = 200
       /\ proc[p].res.xpAwarded = XP_REWARDS.video_watch

\* C22: daily login reward, logins of one user coming one after another - the
\* daily_login amount is applied only for a (user, date) it has not been
\* applied for yet and is then exactly that amount; a login on a date whose
\* marker exists changes no experience and returns awarded = false (the route
\* reports xpAwarded 0); a login on a date without a marker is not turned
\* away as already rewarded.
C22_DailyLoginOnce ==
  [][\A p \in Procs :
       (proc[p].op \in {"login", "awardDailyLoginXp"} /\ Stepped(p)) =>
         LET self == proc[p]
             scope == <<self.userId, self.today>>
         IN  /\ (self.pc = "awardDailyLoginXp_select"
                   /\ scope \in xp_daily_logins) =>
                  /\ proc'[p].pc = "done"
                  /\ users' = users
                  /\ IF self.op = "login"
                     THEN proc'[p].res.xpAwarded = 0
                     ELSE proc'[p].res.awarded = FALSE
             /\ (self.pc = "awardDailyLoginXp_select"
                   /\ scope \notin xp_daily_logins) =>
                  \/ proc'[p].pc = "awardDailyLoginXp_insert"
                  \/ /\ proc'[p].pc = "done"
                     /\ self.op = "awardDailyLoginXp" => ~proc'[p].res.success
             /\ (self.pc = "awardXpDirect_update" /\ users' # users) =>
                  /\ scope \notin dailyGrants
                  /\ users'[self.userId].xp
                       = users[self.userId].xp + XP_REWARDS.daily_login
                  /\ IF self.op = "login"
                     THEN proc'[p].res.xpAwarded = XP_REWARDS.daily_login
                     ELSE proc'[p].res.awarded
             /\ users' # users => self.pc = "awardXpDirect_update"
    ]_vars

\* u1 has been rewarded on two dates, once each, and a further login on the
\* second date has returned awarded = false
C22_Witness ==
  /\ users["u1"].xp = 2 * XP_REWARDS.daily_login
  /\ Cardinality({g \in dailyGrants : g[1] = "u1"}) = 2
  /\ \E p \in Procs :
       /\ Done(p) /\ proc[p].op = "awardDailyLoginXp"
       /\ proc[p].userId = "u1"
       /\ proc[p].res.success /\ ~proc[p].res.awarded

\* C24: the catalog-driven grant is the unconditional grant with the amount
\* looked up - from the same stored (experience, level), awardXp(user, a) and
\* awardXpDirect(user, XP_REWARDS[a]) that both succeed leave the same stored
\* (experience, level) and return the same Result, the leveledUp, nextLevelXp
\* and currentLevelXp fields included.
C24_CatalogIsDirect ==
  ( /\ Done(1) /\ proc[1].op = "awardXp" /\ proc[1].res.success
    /\ Done(2) /\ proc[2].op = "awardXpDirect" /\ proc[2].res.success )
  => /\ users["u1"] = users["u2"]
     /\ proc[1].res = proc[2].res

\* C25: a watch request that is not suppressed enters the catalog grant for
\* video_watch; the cooldown map is written only after that grant succeeded,
\* and then the entry of the request's key becomes the request's own `now`
\* whatever it held before; a request whose grant failed is answered with
\* xpAwarded 0 and leaves the map and the experience as they were.
C25_RecordOnSuccess ==
  [][\A p \in Procs :
       (proc[p].op = "watch" /\ Stepped(p)) =>
         LET self == proc[p]
             key == <<self.userId, self.videoId>>
         IN  /\ (self.pc = "watch_check"
                   /\ ~( videoWatchCooldowns[key] # 0
                         /\ proc'[p].now - videoWatchCooldowns[key]
                              < FiveMinutes )) =>
                  /\ proc'[p].pc = "awardXp_select"
                  /\ proc'[p].actionType = "video_watch"
             /\ IF self.pc = "watch_respond"
                THEN /\ self.res.success
                     /\ videoWatchCooldowns'[key] = self.now
                     /\ \A k \in CooldownKeys \ {key} :
                          videoWatchCooldowns'[k] = videoWatchCooldowns[k]
                ELSE videoWatchCooldowns' = videoWatchCooldowns
             /\ (self.pc \in {"awardXp_select", "awardXp_update"}
                   /\ proc'[p].pc = "done") =>
                  /\ proc'[p].res.xpAwarded = 0
                  /\ users' = users
    ]_vars

\* one request has replaced an earlier timestamp of its key by its own `now`,
\* another one that was not suppressed has failed in its grant
C25_Witness ==
  \E p, q \in Procs :
    /\ Done(p) /\ proc[p].op = "watch"
    /\ HasField(proc[p].res, "xpAwarded")
    /\ proc[p].res.xpAwarded = XP_REWARDS.video_watch
    /\ proc[p].lastWatchTime # 0
    /\ videoWatchCooldowns[<<proc[p].userId, proc[p].videoId>>] = proc[p].now
    /\ Done(q) /\ proc[q].op = "watch"
    /\ proc[q].now # 0 /\ proc[q].res.status = 200
    /\ HasField(proc[q].res, "xpAwarded")
    /\ proc[q].res.xpAwarded = 0
    /\ ~CooldownActive(proc[q].lastWatchTime, proc[q].now)

\* C26: concurrent watch requests of one (user, video) key - a video_watch
\* grant is applied to the user only if no grant of that key was applied within
\* the five minutes before it.
C26_OneGrantPerWindow ==
  [][\A p \in Procs :
       ( /\ proc[p].op = "watch" /\ proc[p].pc = "awardXp_update"
         /\ proc'[p].pc = "watch_respond" )
       => LET last == lastWatchGrant[<<proc[p].userId, proc[p].videoId>>]
          IN  last = 0 \/ clock - last >= FiveMinutes
    ]_vars

\* C27: the cooldown timestamp of a key never decreases - every write to
\* videoWatchCooldowns stores a value at least as large as the one it
\* replaces.
C27_TimestampMonotone ==
  [][\A k \in CooldownKeys : videoWatchCooldowns'[k] >= videoWatchCooldowns[k]
    ]_vars

\* C28: once no 'mark as solution' request is in flight, every post has at
\* most one comment with is_solution = true, and a post that has one has
\* status 'solved'.
C28_OneSolution ==
  (\A p \in Procs : ~(proc[p].op = "markSolution" /\ InFlight(p)))
  => \A post \in Posts :
       LET solutions == {c \in Comments : /\ CommentRow[c].post_id = post
                                          /\ community_comments[c].is_solution}
       IN  /\ Cardinality(solutions) <= 1
           /\ solutions # {} => community_posts[post].status = "solved"

\* C29: marking a solution changes experience only by adding post_solved to
\* what was read for the author of the marked comment, and only when that
\* author is not the post's author; a requester who is not the post's author
\* is turned away at the first step, with 403 when the post lookup worked,
\* and no comment, post or user row changes.
C29_OnlyTheHelper ==
  [][\A p \in Procs :
       (proc[p].op = "markSolution" /\ Stepped(p)) =>
         LET self == proc[p]
         IN  /\ ( /\ self.pc = "solution_postCheck"
                  /\ self.postId \in Posts
                  /\ PostRow[self.postId].author_id # self.requester )
                  => /\ proc'[p].pc = "done"
                     /\ proc'[p].res.status \in {403, 500}
                     /\ users' = users
                     /\ community_comments' = community_comments
                     /\ community_posts' = community_posts
             /\ users' # users =>
                  LET helper == CommentRow[self.commentId].user_id
                  IN  /\ self.pc = "awardXpDirect_update"
                      /\ self.userId = helper
                      /\ helper # PostRow[self.postId].author_id
                      /\ \A u \in Users \ {helper} : users'[u] = users[u]
                      /\ users'[helper].xp
                           = self.currentXp + XP_REWARDS.post_solved
                      /\ proc'[p].res.helperXpAwarded = XP_REWARDS.post_solved
    ]_vars

\* u1 has marked u2's answer and u2 got post_solved, u1 has marked the own
\* comment and got nothing, and u2's attempt on u1's post ended with 403
C29_Witness ==
  /\ users["u2"].xp = XP_REWARDS.post_solved
  /\ users["u1"].xp = 0
  /\ community_comments["c2"].is_solution
  /\ \E p, q \in Procs :
       /\ Done(p) /\ proc[p].op = "markSolution"
       /\ proc[p].requester = "u1" /\ proc[p].commentId = "c2"
       /\ proc[p].res.status = 200 /\ proc[p].res.helperXpAwarded = 0
       /\ Done(q) /\ proc[q].op = "markSolution"
       /\ proc[q].requester = "u2" /\ proc[q].res.status = 403

\* C30: like toggle consistency - a video's likes_count is never negative,
\* and once no like request on it is in flight it is the initial count plus
\* the net change of the video's rows in video_likes (both start at zero, so
\* it is the number of those rows).
C30_LikesConsistent ==
  \A v \in Videos :
    /\ videos[v].likes_count >= 0
    /\ (\A p \in Procs :
          ~(proc[p].op = "like" /\ InFlight(p) /\ proc[p].videoId = v))
        => videos[v].likes_count
             = Cardinality({l \in video_likes : l[2] = v})

====
